---- MODULE Spec2Model ----
(***************************************************************************)
(* Model of the prediction engine of nakshatra-market-analyst,             *)
(* src/advanced_nakshatra.py (class AdvancedNakshatraCalculator).          *)
(*                                                                         *)
(* Number representation.  The program computes with Python floats whose   *)
(* values are short decimals; the model keeps them as exact integers in a  *)
(* fixed unit:                                                             *)
(*   - longitudes and segment ranges: 1/10000 degree (13.3333 -> 133333);  *)
(*   - instants: whole minutes since market_birth (1992-07-01 09:15), so   *)
(*     timedelta(minutes=1) is 1 and one day is 1440;                      *)
(*   - day counts of the cycle: quarter days (365.25 days -> 1461);        *)
(*   - volatilities and scores: thousandths (0.8 -> 800, 1.3 -> 1300);     *)
(*   - progress values and ratios: a pair [num, den] meaning num / den.    *)
(* All day counts of the program are multiples of 0.25 below 2^53, so the  *)
(* float comparisons of the cycle walk are exact.  The last-bit rounding   *)
(* of the other float operations is not modelled: a value is the decimal   *)
(* the float approximates (0.4*0.7 + 0.3*0.9 + 0.3*0.5 is 0.7 here, the    *)
(* float is 0.7000000000000001; bhukti_progress on days 26785 and 28733    *)
(* is 0 here, the float is 0.9999999999999998).  Where the last bit is     *)
(* what a statement is about, the floats of the volatility blend are       *)
(* worked out bit for bit by total_volatility_float and                    *)
(* calculate_combined_score_float.                                         *)
(***************************************************************************)
EXTENDS Integers, Sequences, FiniteSets, TLC

(***************************************************************************)
(* Static tables of __init__.                                              *)
(***************************************************************************)

\* self.nakshatras: name, lord and half-open range of the 27 segments
nakshatras ==
  << [name |-> "Ashwini",           lord |-> "Ketu",    range |-> <<0, 133333>>],
     [name |-> "Bharani",           lord |-> "Venus",   range |-> <<133333, 266666>>],
     [name |-> "Krittika",          lord |-> "Sun",     range |-> <<266666, 400000>>],
     [name |-> "Rohini",            lord |-> "Moon",    range |-> <<400000, 533333>>],
     [name |-> "Mrigashira",        lord |-> "Mars",    range |-> <<533333, 666666>>],
     [name |-> "Ardra",             lord |-> "Rahu",    range |-> <<666666, 800000>>],
     [name |-> "Punarvasu",         lord |-> "Jupiter", range |-> <<800000, 933333>>],
     [name |-> "Pushya",            lord |-> "Saturn",  range |-> <<933333, 1066666>>],
     [name |-> "Ashlesha",          lord |-> "Mercury", range |-> <<1066666, 1200000>>],
     [name |-> "Magha",             lord |-> "Ketu",    range |-> <<1200000, 1333333>>],
     [name |-> "Purva Phalguni",    lord |-> "Venus",   range |-> <<1333333, 1466666>>],
     [name |-> "Uttara Phalguni",   lord |-> "Sun",     range |-> <<1466666, 1600000>>],
     [name |-> "Hasta",             lord |-> "Moon",    range |-> <<1600000, 1733333>>],
     [name |-> "Chitra",            lord |-> "Mars",    range |-> <<1733333, 1866666>>],
     [name |-> "Swati",             lord |-> "Rahu",    range |-> <<1866666, 2000000>>],
     [name |-> "Vishakha",          lord |-> "Jupiter", range |-> <<2000000, 2133333>>],
     [name |-> "Anuradha",          lord |-> "Saturn",  range |-> <<2133333, 2266666>>],
     [name |-> "Jyeshtha",          lord |-> "Mercury", range |-> <<2266666, 2400000>>],
     [name |-> "Mula",              lord |-> "Ketu",    range |-> <<2400000, 2533333>>],
     [name |-> "Purva Ashadha",     lord |-> "Venus",   range |-> <<2533333, 2666666>>],
     [name |-> "Uttara Ashadha",    lord |-> "Sun",     range |-> <<2666666, 2800000>>],
     [name |-> "Shravana",          lord |-> "Moon",    range |-> <<2800000, 2933333>>],
     [name |-> "Dhanishta",         lord |-> "Mars",    range |-> <<2933333, 3066666>>],
     [name |-> "Shatabhisha",       lord |-> "Rahu",    range |-> <<3066666, 3200000>>],
     [name |-> "Purva Bhadrapada",  lord |-> "Jupiter", range |-> <<3200000, 3333333>>],
     [name |-> "Uttara Bhadrapada", lord |-> "Saturn",  range |-> <<3333333, 3466666>>],
     [name |-> "Revati",            lord |-> "Mercury", range |-> <<3466666, 3600000>>] >>

\* the keys of self.mahadasha_periods in dict (insertion) order
mahadasha_keys ==
  <<"Ketu", "Venus", "Sun", "Moon", "Mars", "Rahu", "Jupiter", "Saturn", "Mercury">>

\* self.mahadasha_periods: years of each planet's mahadasha
mahadasha_periods ==
  [Ketu |-> 7, Venus |-> 20, Sun |-> 6, Moon |-> 10, Mars |-> 7,
   Rahu |-> 18, Jupiter |-> 16, Saturn |-> 19, Mercury |-> 17]

\* self.planet_influences (volatility in thousandths)
planet_influences ==
  [Ketu    |-> [volatility |-> 800, direction |-> "uncertain", impact |-> "sudden_changes"],
   Venus   |-> [volatility |-> 300, direction |-> "bullish",   impact |-> "steady_growth"],
   Sun     |-> [volatility |-> 600, direction |-> "bullish",   impact |-> "leadership_moves"],
   Moon    |-> [volatility |-> 500, direction |-> "neutral",   impact |-> "sentiment_driven"],
   Mars    |-> [volatility |-> 900, direction |-> "bearish",   impact |-> "aggressive_moves"],
   Rahu    |-> [volatility |-> 700, direction |-> "uncertain", impact |-> "unexpected_trends"],
   Jupiter |-> [volatility |-> 200, direction |-> "bullish",   impact |-> "expansion_growth"],
   Saturn  |-> [volatility |-> 400, direction |-> "bearish",   impact |-> "correction_consolidation"],
   Mercury |-> [volatility |-> 500, direction |-> "neutral",   impact |-> "news_driven"]]

Planets == {mahadasha_keys[i] : i \in 1..Len(mahadasha_keys)}

(***************************************************************************)
(* Units.                                                                  *)
(***************************************************************************)

\* 365.25 days, in quarter days
YearDays == 1461

\* one day of a timedelta, in minutes
MinutesPerDay == 1440

\* the float 1.0 of a volatility or a score, in thousandths
One == 1000

\* 360 degrees, in 1/10000 degree
FullCircle == 3600000

(***************************************************************************)
(* get_current_nakshatra: first segment whose range holds the longitude,   *)
(* the first segment when none does.  Returns the index into nakshatras.   *)
(***************************************************************************)

\* variant: the last segment when no range holds the longitude
RECURSIVE NakshatraScan_fallbackLast(_, _)
NakshatraScan_fallbackLast(moon_longitude, i) ==
  IF i > Len(nakshatras) THEN Len(nakshatras)
  ELSE IF nakshatras[i].range[1] <= moon_longitude
          /\ moon_longitude < nakshatras[i].range[2]
       THEN i
       ELSE NakshatraScan_fallbackLast(moon_longitude, i + 1)

\* variant: the upper end of a range counted as inside it
RECURSIVE NakshatraScan_closed(_, _)
NakshatraScan_closed(moon_longitude, i) ==
  IF i > Len(nakshatras) THEN 1
  ELSE IF nakshatras[i].range[1] <= moon_longitude
          /\ moon_longitude <= nakshatras[i].range[2]
       THEN i
       ELSE NakshatraScan_closed(moon_longitude, i + 1)

RECURSIVE NakshatraScan(_, _)
NakshatraScan(moon_longitude, i) ==
  IF i > Len(nakshatras) THEN 1
  ELSE IF nakshatras[i].range[1] <= moon_longitude
          /\ moon_longitude < nakshatras[i].range[2]
       THEN i
       ELSE NakshatraScan(moon_longitude, i + 1)

get_current_nakshatra(moon_longitude) == NakshatraScan(moon_longitude, 1)

(***************************************************************************)
(* calculate_dasha_bhukti.                                                 *)
(***************************************************************************)

RECURSIVE SumYears(_)
SumYears(i) ==
  IF i = 0 THEN 0 ELSE SumYears(i - 1) + mahadasha_periods[mahadasha_keys[i]]

\* sum(self.mahadasha_periods.values()) * 365.25, in quarter days
total_mahadasha_days == SumYears(Len(mahadasha_keys)) * YearDays

\* the return statement after the loop
DashaFallback ==
  [mahadasha_lord |-> "Ketu", bhukti_lord |-> "Ketu", progress |-> [num |-> 0, den |-> 1]]

\* variant: mahadasha_progress taken from elapsed_days, the start of the span
\* not subtracted
DashaFound_fromCycleStart(planet, current_days, planet_days, elapsed_days) ==
  LET bhukti_elapsed == 9 * (elapsed_days - current_days)
      bhukti_total   == planet_days
      bhukti_index   == bhukti_elapsed \div bhukti_total
  IN  [mahadasha_lord     |-> planet,
       bhukti_lord        |-> mahadasha_keys[bhukti_index + 1],
       mahadasha_progress |-> [num |-> elapsed_days, den |-> planet_days],
       bhukti_progress    |-> [num |-> bhukti_elapsed % bhukti_total, den |-> bhukti_total]]

\* variant: bhukti_progress taken without the remainder
DashaFound_noRemainder(planet, current_days, planet_days, elapsed_days) ==
  LET bhukti_elapsed == 9 * (elapsed_days - current_days)
      bhukti_total   == planet_days
      bhukti_index   == bhukti_elapsed \div bhukti_total
  IN  [mahadasha_lord     |-> planet,
       bhukti_lord        |-> mahadasha_keys[bhukti_index + 1],
       mahadasha_progress |-> [num |-> elapsed_days - current_days, den |-> planet_days],
       bhukti_progress    |-> [num |-> bhukti_elapsed, den |-> bhukti_total]]

\* variant: the bhukti sequence rotated to begin at the mahadasha lord
DashaFound_rotated(planet, current_days, planet_days, elapsed_days) ==
  LET bhukti_elapsed == 9 * (elapsed_days - current_days)
      bhukti_total   == planet_days
      bhukti_index   == bhukti_elapsed \div bhukti_total
      first          == CHOOSE i \in 1..Len(mahadasha_keys) : mahadasha_keys[i] = planet
  IN  [mahadasha_lord     |-> planet,
       bhukti_lord        |-> mahadasha_keys[((first - 1 + bhukti_index) % Len(mahadasha_keys)) + 1],
       mahadasha_progress |-> [num |-> elapsed_days - current_days, den |-> planet_days],
       bhukti_progress    |-> [num |-> bhukti_elapsed % bhukti_total, den |-> bhukti_total]]

\* the branch taken when the walk finds the planet whose span holds elapsed_days;
\* current_days and planet_days in quarter days, bhukti values in 1/36 day
DashaFound(planet, current_days, planet_days, elapsed_days) ==
  LET bhukti_elapsed == 9 * (elapsed_days - current_days)
      bhukti_total   == planet_days
      bhukti_index   == bhukti_elapsed \div bhukti_total
  IN  [mahadasha_lord     |-> planet,
       bhukti_lord        |-> mahadasha_keys[bhukti_index + 1],
       mahadasha_progress |-> [num |-> elapsed_days - current_days, den |-> planet_days],
       bhukti_progress    |-> [num |-> bhukti_elapsed % bhukti_total, den |-> bhukti_total]]

\* variant: the lower end of a span not counted as inside it
DashaSpanHolds_openLower(current_days, planet_days, elapsed_days) ==
  current_days < elapsed_days /\ elapsed_days < current_days + planet_days

\* the guard of the walk: current_days <= elapsed_days < current_days + planet_days
DashaSpanHolds(current_days, planet_days, elapsed_days) ==
  current_days <= elapsed_days /\ elapsed_days < current_days + planet_days

RECURSIVE DashaWalk(_, _, _)
DashaWalk(i, current_days, elapsed_days) ==
  IF i > Len(mahadasha_keys) THEN DashaFallback
  ELSE LET planet      == mahadasha_keys[i]
           planet_days == mahadasha_periods[planet] * YearDays
       IN  IF DashaSpanHolds(current_days, planet_days, elapsed_days)
           THEN DashaFound(planet, current_days, planet_days, elapsed_days)
           ELSE DashaWalk(i + 1, current_days + planet_days, elapsed_days)

\* (current_date - birth_date).days: whole days, rounded toward minus infinity
TotalDays(birth_date, current_date) == (current_date - birth_date) \div MinutesPerDay

\* variant: total_days not reduced modulo the cycle
calculate_dasha_bhukti_noWrap(birth_date, current_date) ==
  LET total_days   == TotalDays(birth_date, current_date)
      elapsed_days == 4 * total_days
  IN  DashaWalk(1, 0, elapsed_days)

calculate_dasha_bhukti(birth_date, current_date) ==
  LET total_days   == TotalDays(birth_date, current_date)
      elapsed_days == (4 * total_days) % total_mahadasha_days
  IN  DashaWalk(1, 0, elapsed_days)

(***************************************************************************)
(* Fractions [num, den] with den > 0.                                      *)
(***************************************************************************)

\* frac > n / d
FracGt(frac, n, d) == frac.num * d > n * frac.den

\* 0 <= frac < 1
FracInUnit(frac) == 0 <= frac.num /\ frac.num < frac.den

(***************************************************************************)
(* Python's max(d, key=d.get) over a dict whose keys, in iteration order,  *)
(* are the sequence keys: the first key that carries the largest value.    *)
(***************************************************************************)

\* variant: the last key that carries the largest value
RECURSIVE MaxByGet_last(_, _, _, _)
MaxByGet_last(keys, weights, i, best) ==
  IF i > Len(keys) THEN best
  ELSE MaxByGet_last(keys, weights, i + 1,
                     IF weights[keys[i]] >= weights[best] THEN keys[i] ELSE best)

RECURSIVE MaxByGet(_, _, _, _)
MaxByGet(keys, weights, i, best) ==
  IF i > Len(keys) THEN best
  ELSE MaxByGet(keys, weights, i + 1,
                IF weights[keys[i]] > weights[best] THEN keys[i] ELSE best)

MaxKey(keys, weights) == MaxByGet(keys, weights, 2, keys[1])

(***************************************************************************)
(* The influence scorer: lines 136-151 and calculate_combined_score.       *)
(***************************************************************************)

\* mahadasha * 0.4 + bhukti * 0.3 + nakshatra * 0.3, in thousandths
WeightedVolatility(maha_inf, bhukti_inf, nakshatra_inf) ==
  (maha_inf.volatility * 4 + bhukti_inf.volatility * 3 + nakshatra_inf.volatility * 3) \div 10

\* the keys of direction_weights in dict order
direction_keys == <<"bullish", "bearish", "neutral", "uncertain">>

\* direction_weights after the three increments
DirectionWeights(maha_inf, bhukti_inf, nakshatra_inf) ==
  [d \in {direction_keys[i] : i \in 1..Len(direction_keys)} |->
     (IF maha_inf.direction = d THEN 1 ELSE 0)
     + (IF bhukti_inf.direction = d THEN 1 ELSE 0)
     + (IF nakshatra_inf.direction = d THEN 1 ELSE 0)]

PredictedDirection(maha_inf, bhukti_inf, nakshatra_inf) ==
  MaxKey(direction_keys, DirectionWeights(maha_inf, bhukti_inf, nakshatra_inf))

\* the test of the alignment boost
DirectionsAligned(maha_inf, bhukti_inf, nakshatra_inf) ==
  maha_inf.direction = bhukti_inf.direction
  /\ bhukti_inf.direction = nakshatra_inf.direction

Min(a, b) == IF a <= b THEN a ELSE b

\* variant: the boosted score returned without the cap at 1.0
calculate_combined_score_uncapped(maha_inf, bhukti_inf, nakshatra_inf) ==
  LET base_score == WeightedVolatility(maha_inf, bhukti_inf, nakshatra_inf)
  IN  IF DirectionsAligned(maha_inf, bhukti_inf, nakshatra_inf)
      THEN (base_score * 13) \div 10
      ELSE base_score

calculate_combined_score(maha_inf, bhukti_inf, nakshatra_inf) ==
  LET base_score == WeightedVolatility(maha_inf, bhukti_inf, nakshatra_inf)
      boosted    == IF DirectionsAligned(maha_inf, bhukti_inf, nakshatra_inf)
                    THEN (base_score * 13) \div 10
                    ELSE base_score
  IN  Min(One, boosted)

(***************************************************************************)
(* detect_key_events.                                                      *)
(***************************************************************************)

AppendIf(events, cond, label) == IF cond THEN Append(events, label) ELSE events

\* variant: the conditions chained with elif, at most one label
detect_key_events_elif(nakshatra, dasha_info, nakshatra_progress) ==
  IF FracGt(nakshatra_progress, 95, 100)
  THEN <<"Approaching " \o nakshatra.name \o " end">>
  ELSE IF FracGt(dasha_info.mahadasha_progress, 98, 100)
  THEN <<"Mahadasha change imminent">>
  ELSE IF FracGt(dasha_info.bhukti_progress, 98, 100)
  THEN <<"Bhukti change imminent">>
  ELSE IF dasha_info.mahadasha_lord = "Rahu" /\ dasha_info.bhukti_lord = "Mars"
  THEN <<"Rahu-Mars combination - High volatility expected">>
  ELSE IF nakshatra.lord = "Jupiter" /\ dasha_info.mahadasha_lord = "Jupiter"
  THEN <<"Double Jupiter influence - Bullish bias">>
  ELSE <<>>

detect_key_events(nakshatra, dasha_info, nakshatra_progress) ==
  LET e1 == AppendIf(<<>>, FracGt(nakshatra_progress, 95, 100),
                     "Approaching " \o nakshatra.name \o " end")
      e2 == AppendIf(e1, FracGt(dasha_info.mahadasha_progress, 98, 100),
                     "Mahadasha change imminent")
      e3 == AppendIf(e2, FracGt(dasha_info.bhukti_progress, 98, 100),
                     "Bhukti change imminent")
      e4 == AppendIf(e3, dasha_info.mahadasha_lord = "Rahu" /\ dasha_info.bhukti_lord = "Mars",
                     "Rahu-Mars combination - High volatility expected")
  IN  AppendIf(e4, nakshatra.lord = "Jupiter" /\ dasha_info.mahadasha_lord = "Jupiter",
               "Double Jupiter influence - Bullish bias")

(***************************************************************************)
(* One pass of the loop body of generate_minute_level_predictions for the  *)
(* instant current_time and the longitude moon_long the ephemeris gave.    *)
(***************************************************************************)

\* variant: the epoch at 12:00 of the same day, inside the trading hours
market_birth_noon == 12 * 60 - (9 * 60 + 15)

\* datetime(1992, 7, 1, 9, 15) as an instant, and its minute of the day
market_birth == 0
market_birth_minute_of_day == 555

\* current_time.strftime('%H:%M'): hour and minute of the day
TimeStr(current_time) ==
  LET m == (current_time + market_birth_minute_of_day) % MinutesPerDay
  IN  <<m \div 60, m % 60>>

\* dasha_info['mahadasha_progress'] and ['bhukti_progress'] exist
HasProgressKeys(dasha_info) ==
  {"mahadasha_progress", "bhukti_progress"} \subseteq DOMAIN dasha_info

Prediction(current_time, moon_long) ==
  LET current_nakshatra   == nakshatras[get_current_nakshatra(moon_long)]
      dasha_info          == calculate_dasha_bhukti(market_birth, current_time)
      nakshatra_start     == current_nakshatra.range[1]
      nakshatra_end       == current_nakshatra.range[2]
      nakshatra_progress  == [num |-> moon_long - nakshatra_start,
                              den |-> nakshatra_end - nakshatra_start]
      mahadasha_influence == planet_influences[dasha_info.mahadasha_lord]
      bhukti_influence    == planet_influences[dasha_info.bhukti_lord]
      nakshatra_influence == planet_influences[current_nakshatra.lord]
  IN  [timestamp                |-> current_time,
       time_str                 |-> TimeStr(current_time),
       moon_longitude           |-> moon_long,
       current_nakshatra        |-> current_nakshatra.name,
       nakshatra_lord           |-> current_nakshatra.lord,
       nakshatra_progress       |-> nakshatra_progress,
       mahadasha_lord           |-> dasha_info.mahadasha_lord,
       bhukti_lord              |-> dasha_info.bhukti_lord,
       mahadasha_progress       |-> dasha_info.mahadasha_progress,
       bhukti_progress          |-> dasha_info.bhukti_progress,
       predicted_volatility     |-> WeightedVolatility(mahadasha_influence, bhukti_influence,
                                                       nakshatra_influence),
       predicted_direction      |-> PredictedDirection(mahadasha_influence, bhukti_influence,
                                                       nakshatra_influence),
       combined_influence_score |-> calculate_combined_score(mahadasha_influence,
                                                             bhukti_influence,
                                                             nakshatra_influence),
       key_events               |-> detect_key_events(current_nakshatra, dasha_info,
                                                      nakshatra_progress)]

(***************************************************************************)
(* Outcomes of a call: not made yet, returned a value, raised an exception.*)
(***************************************************************************)
Pending     == [status |-> "pending"]
Returned(v) == [status |-> "returned", value |-> v]
Raised(e)   == [status |-> "raised", error |-> e]

(***************************************************************************)
(* The session aggregators.  predict_session_outcome and                   *)
(* assess_session_risk divide by len(predictions) and give an outcome; the *)
(* other two cannot raise and give their value.                            *)
(***************************************************************************)

\* the elements of s[lo..hi] whose index is in keep, in the order of s; the
\* range is walked by halves, which keeps the evaluation shallow on the 376
\* records of a session
RECURSIVE KeepIndexes(_, _, _, _)
KeepIndexes(s, keep, lo, hi) ==
  IF lo > hi THEN <<>>
  ELSE IF lo = hi THEN (IF lo \in keep THEN <<s[lo]>> ELSE <<>>)
  ELSE LET mid == (lo + hi) \div 2
       IN  KeepIndexes(s, keep, lo, mid) \o KeepIndexes(s, keep, mid + 1, hi)

\* variant: s[-n:], the last n
Take_last(s, n) == SubSeq(s, Len(s) - Min(n, Len(s)) + 1, Len(s))

\* s[:n]
Take(s, n) == SubSeq(s, 1, Min(n, Len(s)))

\* the keys of a dict filled by d[k] = d.get(k, 0) + 1 over ks[lo..hi], in
\* dict order: each key where it first occurs (the keys of the first half,
\* then those of the second half that the first half has not)
RECURSIVE FirstSeenKeys(_, _, _)
FirstSeenKeys(ks, lo, hi) ==
  IF lo > hi THEN <<>>
  ELSE IF lo = hi THEN <<ks[lo]>>
  ELSE LET mid    == (lo + hi) \div 2
           first  == FirstSeenKeys(ks, lo, mid)
           second == FirstSeenKeys(ks, mid + 1, hi)
       IN  first \o KeepIndexes(second,
                                {j \in 1..Len(second) :
                                   \A k \in 1..Len(first) : first[k] # second[j]},
                                1, Len(second))

\* and its values: how often each key occurs in ks
CountsOf(ks) ==
  [k \in {ks[i] : i \in 1..Len(ks)} |-> Cardinality({i \in 1..Len(ks) : ks[i] = k})]

\* sum(p['predicted_volatility'] for p in preds[lo..hi])
RECURSIVE SumVolatility(_, _, _)
SumVolatility(preds, lo, hi) ==
  IF lo > hi THEN 0
  ELSE IF lo = hi THEN preds[lo].predicted_volatility
  ELSE LET mid == (lo + hi) \div 2
       IN  SumVolatility(preds, lo, mid) + SumVolatility(preds, mid + 1, hi)

\* str.capitalize() of the four directions
Capitalize(direction) ==
  CASE direction = "bullish"   -> "Bullish"
    [] direction = "bearish"   -> "Bearish"
    [] direction = "neutral"   -> "Neutral"
    [] direction = "uncertain" -> "Uncertain"

\* volatility is a fraction of thousandths: 0.7 is 700 / 1
get_session_character(direction, volatility) ==
  IF FracGt(volatility, 700, 1) THEN "Highly Volatile"
  ELSE IF FracGt(volatility, 500, 1)
       THEN "Moderately Volatile " \o Capitalize(direction)
       ELSE "Stable " \o Capitalize(direction)

\* the threshold tests of the aggregators on one record
IsHighVolatility(p) == p.predicted_volatility > 700
IsStrongBullish(p)  == p.predicted_direction = "bullish" /\ p.combined_influence_score > 700
IsStrongBearish(p)  == p.predicted_direction = "bearish" /\ p.combined_influence_score > 700

\* [p for p in predictions if ...] for the three tests
HighVolPeriods(preds) ==
  KeepIndexes(preds, {i \in 1..Len(preds) : IsHighVolatility(preds[i])}, 1, Len(preds))
StrongBullish(preds) ==
  KeepIndexes(preds, {i \in 1..Len(preds) : IsStrongBullish(preds[i])}, 1, Len(preds))
StrongBearish(preds) ==
  KeepIndexes(preds, {i \in 1..Len(preds) : IsStrongBearish(preds[i])}, 1, Len(preds))

TimeStrs(preds) == [i \in 1..Len(preds) |-> preds[i].time_str]

identify_key_periods(preds) ==
  LET high_vol_periods == HighVolPeriods(preds)
      strong_bullish   == StrongBullish(preds)
      strong_bearish   == StrongBearish(preds)
      k1 == AppendIf(<<>>, high_vol_periods # <<>>,
                     [type           |-> "High Volatility",
                      periods        |-> TimeStrs(Take(high_vol_periods, 3)),
                      intensity      |-> "Very High",
                      recommendation |-> "Caution - Tight stop losses"])
      k2 == AppendIf(k1, strong_bullish # <<>>,
                     [type           |-> "Strong Bullish Bias",
                      periods        |-> TimeStrs(Take(strong_bullish, 2)),
                      intensity      |-> "High",
                      recommendation |-> "Good for long entries"])
  IN  AppendIf(k2, strong_bearish # <<>>,
               [type           |-> "Strong Bearish Bias",
                periods        |-> TimeStrs(Take(strong_bearish, 2)),
                intensity      |-> "High",
                recommendation |-> "Consider short positions"])

\* the keys of direction_counts in dict order
SessionDirectionKeys(preds) ==
  FirstSeenKeys([i \in 1..Len(preds) |-> preds[i].predicted_direction], 1, Len(preds))

predict_session_outcome(preds) ==
  IF Len(preds) = 0 THEN Raised("ZeroDivisionError")
  ELSE
    LET directions         == [i \in 1..Len(preds) |-> preds[i].predicted_direction]
        direction_counts   == CountsOf(directions)
        avg_volatility     == [num |-> SumVolatility(preds, 1, Len(preds)), den |-> Len(preds)]
        dominant_direction == MaxKey(SessionDirectionKeys(preds), direction_counts)
    IN  Returned([overall_direction  |-> dominant_direction,
                  confidence         |-> [num |-> direction_counts[dominant_direction],
                                          den |-> Len(preds)],
                  average_volatility |-> avg_volatility,
                  session_character  |-> get_session_character(dominant_direction,
                                                               avg_volatility)])

\* the three lords of every record, in the order the loop visits them
RECURSIVE LordsOf(_, _, _)
LordsOf(preds, lo, hi) ==
  IF lo > hi THEN <<>>
  ELSE IF lo = hi
  THEN <<preds[lo].mahadasha_lord, preds[lo].bhukti_lord, preds[lo].nakshatra_lord>>
  ELSE LET mid == (lo + hi) \div 2
       IN  LordsOf(preds, lo, mid) \o LordsOf(preds, mid + 1, hi)

\* variant: sorted without reverse=True, the smallest count first
RECURSIVE InsertByCount_ascending(_, _, _)
InsertByCount_ascending(sorted, k, counts) ==
  IF sorted = <<>> THEN <<k>>
  ELSE IF counts[Head(sorted)] <= counts[k]
       THEN <<Head(sorted)>> \o InsertByCount_ascending(Tail(sorted), k, counts)
       ELSE <<k>> \o sorted

\* sorted(items, key=count, reverse=True): a stable sort, equal counts keep
\* their dict order
RECURSIVE InsertByCount(_, _, _)
InsertByCount(sorted, k, counts) ==
  IF sorted = <<>> THEN <<k>>
  ELSE IF counts[Head(sorted)] >= counts[k]
       THEN <<Head(sorted)>> \o InsertByCount(Tail(sorted), k, counts)
       ELSE <<k>> \o sorted

RECURSIVE SortByCount(_, _, _)
SortByCount(keys, counts, i) ==
  IF i = 0 THEN <<>>
  ELSE InsertByCount(SortByCount(keys, counts, i - 1), keys[i], counts)

get_dominant_influences(preds) ==
  LET lords       == LordsOf(preds, 1, Len(preds))
      lord_counts == CountsOf(lords)
      keys        == FirstSeenKeys(lords, 1, Len(lords))
      total       == Len(preds) * 3
      top         == Take(SortByCount(keys, lord_counts, Len(keys)), 3)
  IN  [i \in 1..Len(top) |->
         [planet               |-> top[i],
          influence_percentage |-> [num |-> lord_counts[top[i]] * 100, den |-> total]]]

\* variant: the HIGH threshold not strict
RiskIsHigh_orEqual(risk_ratio) == risk_ratio.num * 100 >= 30 * risk_ratio.den

\* the two threshold tests of assess_session_risk on risk_ratio = num / den
RiskIsHigh(risk_ratio)   == FracGt(risk_ratio, 30, 100)
RiskIsMedium(risk_ratio) == FracGt(risk_ratio, 15, 100)

\* variant: the risk counts the records with volatility > 0.6
assess_session_risk_lowerThreshold(preds) ==
  IF Len(preds) = 0 THEN Raised("ZeroDivisionError")
  ELSE
    LET high_risk_periods ==
          Cardinality({i \in 1..Len(preds) : preds[i].predicted_volatility > 600})
        risk_ratio        == [num |-> high_risk_periods, den |-> Len(preds)]
    IN  IF RiskIsHigh(risk_ratio)
        THEN Returned([level |-> "HIGH", advice |-> "Reduce position sizing"])
        ELSE IF RiskIsMedium(risk_ratio)
             THEN Returned([level |-> "MEDIUM", advice |-> "Normal caution advised"])
             ELSE Returned([level |-> "LOW", advice |-> "Favorable for trading"])

assess_session_risk(preds) ==
  IF Len(preds) = 0 THEN Raised("ZeroDivisionError")
  ELSE
    LET high_risk_periods == Len(HighVolPeriods(preds))
        risk_ratio        == [num |-> high_risk_periods, den |-> Len(preds)]
    IN  IF RiskIsHigh(risk_ratio)
        THEN Returned([level |-> "HIGH", advice |-> "Reduce position sizing"])
        ELSE IF RiskIsMedium(risk_ratio)
             THEN Returned([level |-> "MEDIUM", advice |-> "Normal caution advised"])
             ELSE Returned([level |-> "LOW", advice |-> "Favorable for trading"])

(***************************************************************************)
(* State.                                                                  *)
(*   sky          the ephemeris: the longitude calculate_moon_position     *)
(*                returns at each instant, or EphemerisError where the     *)
(*                ephem call raises; fixed for a whole behaviour           *)
(*   pc           where generate_minute_level_predictions stands           *)
(*   start_time, end_time, current_time, predictions                       *)
(*                its parameters and locals                                *)
(*   result       what the last call gave its caller                       *)
(*   earlier      the outcome of an earlier call that a caller still holds *)
(*   call, ret    a call of one of the pure methods and what it returned   *)
(*   session_input, summary                                                *)
(*                a record list and what each aggregator made of it        *)
(***************************************************************************)
VARIABLES sky, pc, start_time, end_time, current_time, predictions, result,
          earlier, call, ret, session_input, summary

vars == <<sky, pc, start_time, end_time, current_time, predictions, result,
          earlier, call, ret, session_input, summary>>

genVars  == <<sky, pc, start_time, end_time, current_time, predictions, result, earlier>>
pureVars == <<call, ret>>
sumVars  == <<session_input, summary>>

NoCall == [fn |-> "none"]

\* no outcome held, and the outcome of the call (start, end) held
NoEarlier == [status |-> "none"]
Kept(start, end, outcome) ==
  [status |-> "kept", start_time |-> start, end_time |-> end, outcome |-> outcome]

(***************************************************************************)
(* generate_minute_level_predictions, one loop pass per step.              *)
(***************************************************************************)

\* the marker of sky for an instant at which the ephem call raises
EphemerisError == -1

\* instants per window of study and the longitudes the ephemeris may give
MaxMinutes == 3
SampleLongitudes == {0, 533333, 933332, 3599999}

\* first instants of the windows, in minutes since market_birth:
\* the epoch itself, the last minutes before it, the last minute of the
\* first Ketu mahadasha (day 2556), and 09:15 on day 12542 (Moon / Venus)
WindowStarts == {0, 0 - 2, 2557 * MinutesPerDay - 1, 12542 * MinutesPerDay}

Window(b) == b .. (b + MaxMinutes - 1)

GenIdle ==
  /\ pc = "idle"
  /\ start_time = 0 /\ end_time = 0 /\ current_time = 0
  /\ predictions = <<>>
  /\ result = Pending
  /\ earlier = NoEarlier

\* the keys of the dict get_trading_session_predictions builds from the aggregators
SummaryKeys == {"key_periods", "session_prediction", "dominant_influences", "risk_assessment"}

NoPureCall == call = NoCall /\ ret = Pending
NoSummary  == session_input = <<>> /\ summary = [k \in SummaryKeys |-> Pending]

Init ==
  /\ \E b \in WindowStarts : sky \in [Window(b) -> SampleLongitudes \cup {EphemerisError}]
  /\ GenIdle
  /\ NoPureCall
  /\ NoSummary

\* variant: the loop stops before end_time
LoopCondition_exclusive(t, end) == t < end

\* while current_time <= end_time
LoopCondition(t, end) == t <= end

\* variant: the list of the call is the one an earlier call returned (a list
\* shared between calls instead of a fresh one)
Generate_sharedList(start, end) ==
  /\ pc = "idle"
  /\ pc' = "loop"
  /\ start_time' = start
  /\ end_time' = end
  /\ current_time' = start
  /\ predictions' = IF earlier.status = "kept" /\ earlier.outcome.status = "returned"
                    THEN earlier.outcome.value ELSE <<>>
  /\ result' = Pending
  /\ UNCHANGED <<sky, earlier, pureVars, sumVars>>

\* the caller invokes generate_minute_level_predictions(start, end)
Generate(start, end) ==
  /\ pc = "idle"
  /\ pc' = "loop"
  /\ start_time' = start
  /\ end_time' = end
  /\ current_time' = start
  /\ predictions' = <<>>
  /\ result' = Pending
  /\ UNCHANGED <<sky, earlier, pureVars, sumVars>>

\* variant: a minute whose ephemeris call raises is skipped and the loop goes on
LoopPass_skipsFailedMinute ==
  /\ pc = "loop"
  /\ LoopCondition(current_time, end_time)
  /\ IF sky[current_time] = EphemerisError
     THEN /\ current_time' = current_time + 1
          /\ UNCHANGED <<pc, result, predictions>>
     ELSE IF ~ HasProgressKeys(calculate_dasha_bhukti(market_birth, current_time))
     THEN /\ pc' = "raised"
          /\ result' = Raised("KeyError")
          /\ UNCHANGED <<current_time, predictions>>
     ELSE /\ predictions' = Append(predictions, Prediction(current_time, sky[current_time]))
          /\ current_time' = current_time + 1
          /\ UNCHANGED <<pc, result>>
  /\ UNCHANGED <<sky, start_time, end_time, earlier, pureVars, sumVars>>

\* one pass of the while loop: the ephemeris raises, or the dasha walk fell
\* through and the record construction raises KeyError, or a record is appended
LoopPass ==
  /\ pc = "loop"
  /\ LoopCondition(current_time, end_time)
  /\ IF sky[current_time] = EphemerisError
     THEN /\ pc' = "raised"
          /\ result' = Raised("EphemerisError")
          /\ UNCHANGED <<current_time, predictions>>
     ELSE IF ~ HasProgressKeys(calculate_dasha_bhukti(market_birth, current_time))
     THEN /\ pc' = "raised"
          /\ result' = Raised("KeyError")
          /\ UNCHANGED <<current_time, predictions>>
     ELSE /\ predictions' = Append(predictions, Prediction(current_time, sky[current_time]))
          /\ current_time' = current_time + 1
          /\ UNCHANGED <<pc, result>>
  /\ UNCHANGED <<sky, start_time, end_time, earlier, pureVars, sumVars>>

\* the loop condition fails: return predictions
LoopExit ==
  /\ pc = "loop"
  /\ ~ LoopCondition(current_time, end_time)
  /\ pc' = "returned"
  /\ result' = Returned(predictions)
  /\ UNCHANGED <<sky, start_time, end_time, current_time, predictions, earlier,
                 pureVars, sumVars>>

\* the caller has the outcome; the frame is gone and the calculator is free
CallerResumes ==
  /\ pc \in {"returned", "raised"}
  /\ pc' = "idle"
  /\ start_time' = 0 /\ end_time' = 0 /\ current_time' = 0
  /\ predictions' = <<>>
  /\ result' = Pending
  /\ session_input' = <<>>
  /\ summary' = [k \in SummaryKeys |-> Pending]
  /\ UNCHANGED <<sky, earlier, pureVars>>

\* the same, and the caller holds on to the outcome (as
\* get_trading_session_predictions holds minute_predictions) while the
\* calculator serves other calls
CallerKeeps ==
  /\ pc \in {"returned", "raised"}
  /\ earlier = NoEarlier
  /\ earlier' = Kept(start_time, end_time, result)
  /\ pc' = "idle"
  /\ start_time' = 0 /\ end_time' = 0 /\ current_time' = 0
  /\ predictions' = <<>>
  /\ result' = Pending
  /\ session_input' = <<>>
  /\ summary' = [k \in SummaryKeys |-> Pending]
  /\ UNCHANGED <<sky, pureVars>>

\* get_trading_session_predictions after its generation returned: the four
\* aggregators run on the list, in the order of the code; when
\* predict_session_outcome raises, the two after it are never called
SessionSummaries ==
  /\ pc = "returned"
  /\ summary["key_periods"] = Pending
  /\ session_input' = predictions
  /\ summary' =
       LET session_prediction == predict_session_outcome(predictions)
       IN  [key_periods         |-> Returned(identify_key_periods(predictions)),
            session_prediction  |-> session_prediction,
            dominant_influences |-> IF session_prediction.status = "raised" THEN Pending
                                    ELSE Returned(get_dominant_influences(predictions)),
            risk_assessment     |-> IF session_prediction.status = "raised" THEN Pending
                                    ELSE assess_session_risk(predictions)]
  /\ UNCHANGED <<genVars, pureVars>>

Next ==
  \/ \E start \in DOMAIN sky :
       \E end \in {t - 1 : t \in DOMAIN sky} \cup DOMAIN sky : Generate(start, end)
  \/ LoopPass
  \/ LoopExit
  \/ CallerResumes
  \/ CallerKeeps
  \/ SessionSummaries

Spec == Init /\ [][Next]_vars

(***************************************************************************)
(* The pure methods, each applied once to an input drawn at the start.     *)
(***************************************************************************)

NoSky == sky = <<>>

\* --- get_current_nakshatra ----------------------------------------------

\* longitudes tried: every range end of the table and its two neighbours,
\* and LongitudeSteps evenly spread points
LongitudeSteps == 36

LongitudeInputs ==
  {l \in {nakshatras[i].range[j] + d : i \in 1..Len(nakshatras), j \in 1..2, d \in {0 - 1, 0, 1}} :
     0 <= l /\ l <= FullCircle}
  \cup {k * (FullCircle \div LongitudeSteps) : k \in 0..(LongitudeSteps - 1)}

InitNakshatra ==
  /\ NoSky /\ GenIdle /\ NoSummary
  /\ call \in {[fn |-> "get_current_nakshatra", moon_longitude |-> l] : l \in LongitudeInputs}
  /\ ret = Pending

Do_get_current_nakshatra ==
  /\ call.fn = "get_current_nakshatra"
  /\ ret = Pending
  /\ ret' = Returned(get_current_nakshatra(call.moon_longitude))
  /\ UNCHANGED <<call, genVars, sumVars>>

NextNakshatra == Do_get_current_nakshatra

SpecNakshatra == InitNakshatra /\ [][NextNakshatra]_vars

\* --- calculate_dasha_bhukti ---------------------------------------------

\* whole days between epoch and instant that are tried: from MaxPastDays
\* before the epoch to MaxDays after it (one macro-cycle is 43830 days), each
\* at the start and in the last minute of the day
MaxPastDays == 3
MaxDays == 43833
MinuteOffsets == {0, MinutesPerDay - 1}

\* epochs tried: market_birth and an epoch ten hours earlier
EpochInputs == {market_birth, market_birth - 600}

InitDasha ==
  /\ NoSky /\ GenIdle /\ NoSummary
  /\ call \in {[fn           |-> "calculate_dasha_bhukti",
                birth_date   |-> b,
                current_date |-> b + d * MinutesPerDay + m] :
                  b \in EpochInputs, d \in (0 - MaxPastDays)..MaxDays, m \in MinuteOffsets}
  /\ ret = Pending

Do_calculate_dasha_bhukti ==
  /\ call.fn = "calculate_dasha_bhukti"
  /\ ret = Pending
  /\ ret' = Returned(calculate_dasha_bhukti(call.birth_date, call.current_date))
  /\ UNCHANGED <<call, genVars, sumVars>>

NextDasha == Do_calculate_dasha_bhukti

SpecDasha == InitDasha /\ [][NextDasha]_vars

\* --- the influence scorer -----------------------------------------------

InitScore ==
  /\ NoSky /\ GenIdle /\ NoSummary
  /\ call \in {[fn            |-> f,
                maha_inf      |-> planet_influences[a],
                bhukti_inf    |-> planet_influences[b],
                nakshatra_inf |-> planet_influences[c]] :
                  f \in {"calculate_combined_score", "direction_vote"},
                  a \in Planets, b \in Planets, c \in Planets}
  /\ ret = Pending

Do_calculate_combined_score ==
  /\ call.fn = "calculate_combined_score"
  /\ ret = Pending
  /\ ret' = Returned(calculate_combined_score(call.maha_inf, call.bhukti_inf,
                                               call.nakshatra_inf))
  /\ UNCHANGED <<call, genVars, sumVars>>

\* lines 143-151 of the loop body
Do_direction_vote ==
  /\ call.fn = "direction_vote"
  /\ ret = Pending
  /\ ret' = Returned(PredictedDirection(call.maha_inf, call.bhukti_inf, call.nakshatra_inf))
  /\ UNCHANGED <<call, genVars, sumVars>>

NextScore == Do_calculate_combined_score \/ Do_direction_vote

SpecScore == InitScore /\ [][NextScore]_vars

\* --- detect_key_events ----------------------------------------------------

\* nakshatra_progress is tried at k / EventProgressSteps and next to 0.95;
\* the two dasha progresses at and next to 0.98
EventProgressSteps == 20

SegmentProgressInputs ==
  {[num |-> k, den |-> EventProgressSteps] : k \in 0..EventProgressSteps}
  \cup {[num |-> n, den |-> 10000] : n \in {9499, 9500, 9501}}

DashaProgressInputs == {[num |-> n, den |-> 10000] : n \in {0, 9799, 9800, 9801}}

DashaInfoInputs ==
  {[mahadasha_lord |-> m, bhukti_lord |-> b, mahadasha_progress |-> mp, bhukti_progress |-> bp] :
     m \in {"Rahu", "Jupiter", "Mars"}, b \in {"Mars", "Rahu"},
     mp \in DashaProgressInputs, bp \in DashaProgressInputs}

InitEvents ==
  /\ NoSky /\ GenIdle /\ NoSummary
  /\ call \in {[fn |-> "detect_key_events", nakshatra |-> nakshatras[i], dasha_info |-> d,
                 nakshatra_progress |-> p] :
                 i \in 1..Len(nakshatras), d \in DashaInfoInputs, p \in SegmentProgressInputs}
  /\ ret = Pending

Do_detect_key_events ==
  /\ call.fn = "detect_key_events"
  /\ ret = Pending
  /\ ret' = Returned(detect_key_events(call.nakshatra, call.dasha_info, call.nakshatra_progress))
  /\ UNCHANGED <<call, genVars, sumVars>>

NextEvents == Do_detect_key_events

SpecEvents == InitEvents /\ [][NextEvents]_vars

(***************************************************************************)
(* get_trading_session_predictions for one analysis date: the generation   *)
(* from 09:15 to 15:30 of that date, minute by minute, then the summaries.  *)
(***************************************************************************)

\* analysis_date.replace(hour=9, minute=15, second=0, microsecond=0): 09:15 of
\* the calendar day of analysis_date (the calendar day starts
\* market_birth_minute_of_day minutes before an instant that is a multiple
\* of MinutesPerDay)
market_open(analysis_date) ==
  ((analysis_date + market_birth_minute_of_day) \div MinutesPerDay) * MinutesPerDay

\* analysis_date.replace(hour=15, minute=30, second=0, microsecond=0)
market_close(analysis_date) ==
  market_open(analysis_date) - market_birth_minute_of_day + 15 * 60 + 30

\* analysis dates tried: the epoch, the minute before it (the same calendar
\* day), 23:59 of the day before, day 2557 (the first day of the Venus
\* mahadasha) at 10:55, 00:00 of day 12542 and day 16906 at 01:55 at night
AnalysisDates ==
  {0, 0 - 1, 0 - 556, 2557 * MinutesPerDay + 100, 12542 * MinutesPerDay - 555,
   16906 * MinutesPerDay + 1000}

\* the ephemeris over a session: the Moon at 09:15 and its advance per
\* minute (about 13.2 degrees a day), reduced as calculate_moon_position does
MoonRate == 92
SessionMoonStarts == {0, 533333 - 92 * 100, FullCircle - 92 * 200}

SessionSky(analysis_date, moon_start) ==
  [t \in market_open(analysis_date)..market_close(analysis_date) |->
     (moon_start + MoonRate * (t - market_open(analysis_date))) % FullCircle]

InitSession ==
  /\ \E a \in AnalysisDates, m \in SessionMoonStarts :
       /\ call = [fn |-> "get_trading_session_predictions", analysis_date |-> a]
       /\ sky = SessionSky(a, m)
  /\ ret = Pending
  /\ GenIdle
  /\ NoSummary

\* line 227: the generation over the trading hours of the analysis date
SessionGenerate ==
  /\ call.fn = "get_trading_session_predictions"
  /\ Generate(market_open(call.analysis_date), market_close(call.analysis_date))

NextSession ==
  \/ SessionGenerate
  \/ LoopPass
  \/ LoopExit
  \/ SessionSummaries
  \/ CallerResumes

SpecSession == InitSession /\ [][NextSession]_vars

(***************************************************************************)
(* The aggregators, each applied once to a record list drawn at the start. *)
(***************************************************************************)

Do_identify_key_periods ==
  /\ summary["key_periods"] = Pending
  /\ summary' = [summary EXCEPT !["key_periods"] = Returned(identify_key_periods(session_input))]
  /\ UNCHANGED <<session_input, genVars, pureVars>>

Do_predict_session_outcome ==
  /\ summary["session_prediction"] = Pending
  /\ summary' = [summary EXCEPT !["session_prediction"] = predict_session_outcome(session_input)]
  /\ UNCHANGED <<session_input, genVars, pureVars>>

Do_get_dominant_influences ==
  /\ summary["dominant_influences"] = Pending
  /\ summary' = [summary EXCEPT
                   !["dominant_influences"] = Returned(get_dominant_influences(session_input))]
  /\ UNCHANGED <<session_input, genVars, pureVars>>

Do_assess_session_risk ==
  /\ summary["risk_assessment"] = Pending
  /\ summary' = [summary EXCEPT !["risk_assessment"] = assess_session_risk(session_input)]
  /\ UNCHANGED <<session_input, genVars, pureVars>>

\* records the lists are made of: loop-body results for an instant (day and
\* minute since market_birth) and a longitude
\*   day 16906 Mars/Mars,  Mrigashira (Mars):    bearish, 0.9,  score 1.0
\*   day 16906 Mars/Mars,  Punarvasu (Jupiter):  bearish, 0.69, score 0.69
\*   day 10462 Sun/Sun,    Krittika (Sun):       bullish, 0.6,  score 0.78
\*   day 12542 Moon/Venus, Rohini (Moon):        neutral, 0.44, score 0.44
\*   day 0     Ketu/Ketu,  Ashwini (Ketu):       uncertain, 0.8, score 1.0
\*   day 12542 Moon/Venus, Punarvasu (Jupiter):  bullish, 0.35, score 0.35
SamplePoints ==
  { <<16906 * MinutesPerDay, 533333>>,
    <<16906 * MinutesPerDay + 1, 800000>>,
    <<10462 * MinutesPerDay + 2, 266666>>,
    <<12542 * MinutesPerDay + 3, 400000>>,
    <<4, 0>>,
    <<12542 * MinutesPerDay + 5, 800000>> }

SampleRecords == {Prediction(pt[1], pt[2]) : pt \in SamplePoints}

\* longest record list tried
MaxRecords == 4

SeqsUpTo(S, n) == UNION {[1..k -> S] : k \in 0..n}

InitSummary ==
  /\ NoSky /\ GenIdle /\ NoPureCall
  /\ session_input \in SeqsUpTo(SampleRecords, MaxRecords)
  /\ summary = [k \in SummaryKeys |-> Pending]

NextSummary ==
  \/ Do_identify_key_periods
  \/ Do_predict_session_outcome
  \/ Do_get_dominant_influences
  \/ Do_assess_session_risk

SpecSummary == InitSummary /\ [][NextSummary]_vars

\* long lists for the risk ratio: the records of the minutes 0 .. n-1 after
\* market_birth (Ketu / Ketu), h of them with the Moon in Ashwini (Ketu,
\* volatility 0.8) and the others in Punarvasu (Jupiter, volatility 0.62),
\* the volatile ones first or last
MaxRiskRecords == 100

RiskInput(n, h, highFirst) ==
  [i \in 1..n |->
     Prediction(market_birth + i - 1,
                IF (highFirst /\ i <= h) \/ (~highFirst /\ i > n - h) THEN 0 ELSE 800000)]

InitRisk ==
  /\ NoSky /\ GenIdle /\ NoPureCall
  /\ session_input \in UNION {{RiskInput(n, h, f) : h \in 0..n, f \in BOOLEAN} :
                                 n \in 1..MaxRiskRecords}
  /\ summary = [k \in SummaryKeys |-> Pending]

NextRisk == Do_assess_session_risk

SpecRisk == InitRisk /\ [][NextRisk]_vars

(***************************************************************************)
(* The floats of the volatility blend, bit for bit.  Python floats are     *)
(* IEEE 754 binary64: a decimal literal is the nearest binary64, and each  *)
(* * and + gives the nearest binary64 of the exact result, ties to the     *)
(* even mantissa.  A positive float is a pair [m, e] worth m * 2^e with    *)
(* 2^52 <= m < 2^53; m is a natural number written in limbs of 10 bits,    *)
(* the least significant limb first.                                       *)
(***************************************************************************)

Limb == 1024
LimbBits == 10
MantissaBits == 53
MantissaLimbs == 6

\* limb k of the natural number a, 0 beyond its length
LimbAt(a, k) == IF k <= Len(a) THEN a[k] ELSE 0

\* the limbs of the number whose limb i is s[i] + (carry from below), s[i]
\* any natural number
RECURSIVE Carry(_, _, _)
Carry(s, i, c) ==
  IF i > Len(s)
  THEN IF c = 0 THEN <<>> ELSE <<c % Limb>> \o Carry(s, i, c \div Limb)
  ELSE <<(s[i] + c) % Limb>> \o Carry(s, i + 1, (s[i] + c) \div Limb)

\* a + b
BigAdd(a, b) ==
  Carry([k \in 1..(IF Len(a) > Len(b) THEN Len(a) ELSE Len(b)) |-> LimbAt(a, k) + LimbAt(b, k)],
        1, 0)

\* the sum of a[i] * b[k + 1 - i] over i from lo to hi
RECURSIVE Convolve(_, _, _, _, _)
Convolve(a, b, k, lo, hi) ==
  IF lo > hi THEN 0
  ELSE LimbAt(a, lo) * LimbAt(b, k + 1 - lo) + Convolve(a, b, k, lo + 1, hi)

\* a * b
BigMul(a, b) ==
  Carry([k \in 1..(Len(a) + Len(b)) |-> Convolve(a, b, k, 1, k)], 1, 0)

\* floor(a / d) and a mod d for a small divisor d, from the top limb i down
RECURSIVE BigDivSmall(_, _, _, _)
BigDivSmall(a, i, r, d) ==
  IF i = 0 THEN [q |-> <<>>, r |-> r]
  ELSE LET cur  == r * Limb + a[i]
           rest == BigDivSmall(a, i - 1, cur % d, d)
       IN  [q |-> Append(rest.q, cur \div d), r |-> rest.r]

\* bit p of a, bit 0 the lowest
BitAt(a, p) == (LimbAt(a, p \div LimbBits + 1) \div (2 ^ (p % LimbBits))) % 2

\* the number of bits of a > 0
BitLen(a) ==
  LET top == CHOOSE i \in 1..Len(a) : a[i] # 0 /\ \A j \in (i + 1)..Len(a) : a[j] = 0
      n   == CHOOSE b \in 1..LimbBits : 2 ^ (b - 1) <= a[top] /\ a[top] < 2 ^ b
  IN  LimbBits * (top - 1) + n

\* a * 2^s
ShiftLeft(a, s) ==
  Carry([k \in 1..(Len(a) + s \div LimbBits) |->
           IF k <= s \div LimbBits THEN 0
           ELSE a[k - s \div LimbBits] * (2 ^ (s % LimbBits))], 1, 0)

\* floor(a / 2^s)
ShiftRight(a, s) ==
  LET q == s \div LimbBits
      b == s % LimbBits
  IN  Carry([k \in 1..(Len(a) - q) |->
               LimbAt(a, k + q) \div (2 ^ b)
               + (LimbAt(a, k + q + 1) % (2 ^ b)) * (2 ^ (LimbBits - b))], 1, 0)

\* a < b and a = b
BigLess(a, b) ==
  \E k \in 1..Len(b) :
    /\ LimbAt(a, k) < b[k]
    /\ \A j \in (k + 1)..(IF Len(a) > Len(b) THEN Len(a) ELSE Len(b)) :
         LimbAt(a, j) = LimbAt(b, j)

BigEqual(a, b) ==
  \A k \in 1..(IF Len(a) > Len(b) THEN Len(a) ELSE Len(b)) : LimbAt(a, k) = LimbAt(b, k)

\* the binary64 nearest to (p + f) * 2^e, where p has more than 53 bits and
\* 0 <= f < 1 with f > 0 exactly when sticky: round to nearest, ties to even
RoundNearestEven(p, e, sticky) ==
  LET s       == BitLen(p) - MantissaBits
      q       == ShiftRight(p, s)
      half    == BitAt(p, s - 1) = 1
      below   == sticky \/ \E i \in 0..(s - 2) : BitAt(p, i) = 1
      roundUp == half /\ (below \/ BitAt(q, 0) = 1)
      m       == IF roundUp THEN BigAdd(q, <<1>>) ELSE q
  IN  IF BitLen(m) > MantissaBits
      THEN [m |-> SubSeq(ShiftRight(m, 1), 1, MantissaLimbs), e |-> e + s + 1]
      ELSE [m |-> SubSeq(m, 1, MantissaLimbs), e |-> e + s]

\* the float of the decimal literal n / d (0.9 is Binary64(9, 10))
Binary64(n, d) ==
  LET scaled == ShiftLeft(<<n>>, 70)
      qr     == BigDivSmall(scaled, Len(scaled), 0, d)
  IN  RoundNearestEven(qr.q, 0 - 70, qr.r # 0)

\* x * y
FloatMul(x, y) == RoundNearestEven(BigMul(x.m, y.m), x.e + y.e, FALSE)

\* x + y
FloatAdd(x, y) ==
  LET e == IF x.e < y.e THEN x.e ELSE y.e
  IN  RoundNearestEven(ShiftLeft(BigAdd(ShiftLeft(x.m, x.e - e), ShiftLeft(y.m, y.e - e)), 2),
                       e - 2, FALSE)

\* x < y, x = y, x <= y
FloatLess(x, y) ==
  LET e == IF x.e < y.e THEN x.e ELSE y.e
  IN  BigLess(ShiftLeft(x.m, x.e - e), ShiftLeft(y.m, y.e - e))

FloatEqual(x, y) == x.e = y.e /\ BigEqual(x.m, y.m)

FloatLeq(x, y) == FloatLess(x, y) \/ FloatEqual(x, y)

\* the member of a set of one element; a value bound as the member of a set
\* is worked out once, where an operator argument is worked out at each use
The(S) == CHOOSE x \in S : TRUE

\* the floats of the literals 0.4, 0.3, 1.3 and 1.0
Weight04 == Binary64(4, 10)
Weight03 == Binary64(3, 10)
Boost13  == Binary64(13, 10)
Float1   == Binary64(1, 1)

\* lines 137-141 in floats: the volatilities are the literals of the table
\* (thousandths here); the sum is taken from left to right
total_volatility_float(maha_inf, bhukti_inf, nakshatra_inf) ==
  The({FloatAdd(first_two, third) :
         first_two \in {FloatAdd(first, second) :
                          first  \in {FloatMul(v, Weight04) :
                                        v \in {Binary64(maha_inf.volatility, One)}},
                          second \in {FloatMul(v, Weight03) :
                                        v \in {Binary64(bhukti_inf.volatility, One)}}},
         third \in {FloatMul(v, Weight03) : v \in {Binary64(nakshatra_inf.volatility, One)}}})

\* calculate_combined_score in floats: base_score *= 1.3 when the three
\* directions are equal, then min(1.0, base_score)
calculate_combined_score_float(maha_inf, bhukti_inf, nakshatra_inf) ==
  The({IF FloatLess(Float1, boosted) THEN Float1 ELSE boosted :
         boosted \in {IF DirectionsAligned(maha_inf, bhukti_inf, nakshatra_inf)
                      THEN FloatMul(base_score, Boost13)
                      ELSE base_score :
                        base_score \in {total_volatility_float(maha_inf, bhukti_inf,
                                                               nakshatra_inf)}}})

(***************************************************************************)
(* Properties.                                                             *)
(***************************************************************************)

\* the span of the i-th planet of the fixed order and the days accumulated
\* before it, in quarter days
SpanOf(i) == mahadasha_periods[mahadasha_keys[i]] * YearDays

RECURSIVE AccumulatedBefore(_)
AccumulatedBefore(i) == IF i = 1 THEN 0 ELSE AccumulatedBefore(i - 1) + SpanOf(i - 1)

\* the phase of a cycle query, in quarter days: elapsed whole days mod 43830
ElapsedDaysOf(c) == (c.current_date - c.birth_date) \div MinutesPerDay
PhaseOf(c) == 4 * (ElapsedDaysOf(c) % 43830)

\* the planets whose span holds the phase
MajorIndexes(phase) ==
  {i \in 1..Len(mahadasha_keys) :
     AccumulatedBefore(i) <= phase /\ phase < AccumulatedBefore(i) + SpanOf(i)}

DashaReturned == call.fn = "calculate_dasha_bhukti" /\ ret.status = "returned"

\* C1: a generation that returns gives the records of start, start + 1 min,
\* ... up to the last such instant <= end, one per minute and strictly
\* ascending, and the empty list when start > end
C1_OneRecordPerMinute ==
  pc = "returned" =>
    LET r == result.value
    IN  /\ Len(r) = (IF start_time > end_time THEN 0 ELSE end_time - start_time + 1)
        /\ \A i \in 1..Len(r) : r[i].timestamp = start_time + (i - 1)
        /\ \A i \in 1..(Len(r) - 1) : r[i].timestamp < r[i + 1].timestamp

C1_Witness ==
  pc = "returned" /\ start_time < end_time /\ Len(result.value) >= 2

\* the segments whose half-open range holds the longitude l
SegmentsHolding(l) ==
  {i \in 1..Len(nakshatras) : nakshatras[i].range[1] <= l /\ l < nakshatras[i].range[2]}

\* C2: the 27 ranges are contiguous from 0 to 360, and for a longitude in
\* [0, 360) exactly one range holds it and get_current_nakshatra returns
\* that segment
C2_Partition ==
  /\ Len(nakshatras) = 27
  /\ nakshatras[1].range[1] = 0
  /\ nakshatras[Len(nakshatras)].range[2] = FullCircle
  /\ \A i \in 1..(Len(nakshatras) - 1) : nakshatras[i].range[2] = nakshatras[i + 1].range[1]
  /\ (call.fn = "get_current_nakshatra" /\ ret.status = "returned"
      /\ 0 <= call.moon_longitude /\ call.moon_longitude < FullCircle)
     => /\ Cardinality(SegmentsHolding(call.moon_longitude)) = 1
        /\ ret.value \in SegmentsHolding(call.moon_longitude)

\* a longitude on the border of two ranges belongs to the upper one
C2_Witness ==
  /\ call.fn = "get_current_nakshatra" /\ ret.status = "returned"
  /\ call.moon_longitude = 133333
  /\ ret.value = 2

\* C3: for all epochs and instants both progress values lie in [0, 1), and
\* the nine spans sum to the macro-cycle length, 120 * 365.25 = 43830 days
C3_CycleConservation ==
  /\ AccumulatedBefore(Len(mahadasha_keys)) + SpanOf(Len(mahadasha_keys)) = 4 * 43830
  /\ total_mahadasha_days = 4 * 43830
  /\ DashaReturned =>
       /\ HasProgressKeys(ret.value)
       /\ FracInUnit(ret.value.mahadasha_progress)
       /\ FracInUnit(ret.value.bhukti_progress)

\* a query on the last day of a mahadasha: both progress values above 0.99
C3_Witness ==
  /\ DashaReturned
  /\ HasProgressKeys(ret.value)
  /\ FracGt(ret.value.mahadasha_progress, 99, 100)
  /\ FracGt(ret.value.bhukti_progress, 99, 100)

\* C4: for an instant >= epoch the major ruler is the one planet of the
\* order Ketu, Venus, Sun, Moon, Mars, Rahu, Jupiter, Saturn, Mercury whose
\* span holds the phase, majorProgress is (phase - accumulatedBefore) / span,
\* and elapsedDays = 0 gives Ketu with majorProgress 0
C4_MajorRuler ==
  (DashaReturned /\ call.current_date >= call.birth_date) =>
    LET order == <<"Ketu", "Venus", "Sun", "Moon", "Mars", "Rahu", "Jupiter", "Saturn", "Mercury">>
        phase == PhaseOf(call)
        v     == ret.value
    IN  /\ Cardinality(MajorIndexes(phase)) = 1
        /\ HasProgressKeys(v)
        /\ \A i \in MajorIndexes(phase) :
             /\ v.mahadasha_lord = order[i]
             /\ v.mahadasha_progress.num * SpanOf(i)
                  = (phase - AccumulatedBefore(i)) * v.mahadasha_progress.den
        /\ ElapsedDaysOf(call) = 0 =>
             v.mahadasha_lord = "Ketu" /\ v.mahadasha_progress.num = 0

\* a query in the second macro-cycle, back in the Ketu span
C4_Witness ==
  /\ DashaReturned
  /\ ElapsedDaysOf(call) > 43830
  /\ ret.value.mahadasha_lord = "Ketu"
  /\ HasProgressKeys(ret.value)
  /\ ret.value.mahadasha_progress.num > 0

\* C5: for an instant >= epoch the sub ruler is the planet at index
\* floor(elapsedWithinMajor / (majorLength / 9)) of the same order counted
\* from Ketu, the index lies in 0..8, and elapsedDays = 0 gives Ketu with
\* subProgress 0
C5_SubRuler ==
  (DashaReturned /\ call.current_date >= call.birth_date) =>
    LET order == <<"Ketu", "Venus", "Sun", "Moon", "Mars", "Rahu", "Jupiter", "Saturn", "Mercury">>
        phase == PhaseOf(call)
        v     == ret.value
    IN  /\ HasProgressKeys(v)
        /\ \A i \in MajorIndexes(phase) :
             LET within  == phase - AccumulatedBefore(i)
                 indexes == {k \in 0..8 : k * SpanOf(i) <= 9 * within
                                          /\ 9 * within < (k + 1) * SpanOf(i)}
             IN  /\ Cardinality(indexes) = 1
                 /\ \A k \in indexes :
                      /\ v.bhukti_lord = order[k + 1]
                      /\ v.bhukti_progress.num * SpanOf(i)
                           = (9 * within - k * SpanOf(i)) * v.bhukti_progress.den
        /\ ElapsedDaysOf(call) = 0 =>
             v.bhukti_lord = "Ketu" /\ v.bhukti_progress.num = 0

\* the first ninth of the Venus mahadasha belongs to Ketu, not to Venus
C5_Witness ==
  /\ DashaReturned
  /\ call.current_date >= call.birth_date
  /\ ret.value.mahadasha_lord = "Venus"
  /\ ret.value.bhukti_lord = "Ketu"

\* the votes the three inputs of a scorer call give to direction d
VotesFor(c, d) ==
  Cardinality({k \in 1..3 :
                 <<c.maha_inf.direction, c.bhukti_inf.direction, c.nakshatra_inf.direction>>[k] = d})

\* C6: the predicted direction has the most of the 3 votes, and among the
\* directions with the most votes it is the first in the order bullish,
\* bearish, neutral, uncertain
C6_DirectionVote ==
  (call.fn = "direction_vote" /\ ret.status = "returned") =>
    LET priority == <<"bullish", "bearish", "neutral", "uncertain">>
    IN  \E w \in 1..4 :
          /\ ret.value = priority[w]
          /\ \A j \in 1..4 : VotesFor(call, priority[j]) <= VotesFor(call, priority[w])
          /\ \A j \in 1..(w - 1) : VotesFor(call, priority[j]) < VotesFor(call, priority[w])

\* one vote each for bearish, neutral and uncertain: bearish wins
C6_Witness ==
  /\ call.fn = "direction_vote" /\ ret.status = "returned"
  /\ VotesFor(call, "bearish") = 1
  /\ VotesFor(call, "neutral") = 1
  /\ VotesFor(call, "uncertain") = 1
  /\ ret.value = "bearish"

\* C7: calculate_combined_score is min(1.0, 1.3 * blend) when the three
\* directions are identical and blend otherwise, blend = 0.4 major + 0.3 sub
\* + 0.3 segment; bullish inputs of volatility 0.2, 0.3, 0.3 give 0.338
C7_CombinedScore ==
  (call.fn = "calculate_combined_score" /\ ret.status = "returned") =>
    LET blend   == 4 * call.maha_inf.volatility + 3 * call.bhukti_inf.volatility
                   + 3 * call.nakshatra_inf.volatility        \* in 1/10000
        aligned == /\ call.maha_inf.direction = call.bhukti_inf.direction
                   /\ call.maha_inf.direction = call.nakshatra_inf.direction
    IN  /\ aligned  => 100 * ret.value = Min(100 * One, 13 * blend)
        /\ ~aligned => 10 * ret.value = blend
        /\ (aligned /\ call.maha_inf.direction = "bullish"
            /\ call.maha_inf.volatility = 200 /\ call.bhukti_inf.volatility = 300
            /\ call.nakshatra_inf.volatility = 300) => ret.value = 338

C7_Witness ==
  /\ call.fn = "calculate_combined_score" /\ ret.status = "returned"
  /\ call.maha_inf = planet_influences["Jupiter"]
  /\ call.bhukti_inf = planet_influences["Venus"]
  /\ call.nakshatra_inf = planet_influences["Venus"]
  /\ ret.value = 338

\* C8: no aggregator applied to the empty record list raises
C8_EmptySummaryDefined ==
  session_input = <<>> => \A k \in SummaryKeys : summary[k].status # "raised"

\* how many records of the list have direction d
DirectionCount(preds, d) == Cardinality({i \in 1..Len(preds) : preds[i].predicted_direction = d})

\* C9: for a non-empty list the overall direction has the highest record
\* count, is the first of the directions with that count in the order
\* bullish, bearish, neutral, uncertain, and confidence = its count / total
C9_SessionDirection ==
  (session_input # <<>> /\ summary["session_prediction"].status = "returned") =>
    LET priority == <<"bullish", "bearish", "neutral", "uncertain">>
        v        == summary["session_prediction"].value
    IN  \E w \in 1..4 :
          /\ v.overall_direction = priority[w]
          /\ \A j \in 1..4 : DirectionCount(session_input, priority[j])
                               <= DirectionCount(session_input, priority[w])
          /\ \A j \in 1..(w - 1) : DirectionCount(session_input, priority[j])
                                     < DirectionCount(session_input, priority[w])
          /\ v.confidence.num * Len(session_input)
               = DirectionCount(session_input, priority[w]) * v.confidence.den

\* the records of the list with volatility > 0.7
HighVolatilityCount(preds) ==
  Cardinality({i \in 1..Len(preds) : preds[i].predicted_volatility > 700})

\* C10: with h of n records above 0.7, the level is HIGH iff h/n > 0.3,
\* MEDIUM iff 0.15 < h/n <= 0.3 and LOW iff h/n <= 0.15
C10_RiskBuckets ==
  (session_input # <<>> /\ summary["risk_assessment"].status # "pending") =>
    LET h     == HighVolatilityCount(session_input)
        n     == Len(session_input)
        level == summary["risk_assessment"].value.level
    IN  /\ summary["risk_assessment"].status = "returned"
        /\ level \in {"HIGH", "MEDIUM", "LOW"}
        /\ level = "HIGH"   <=> 10 * h > 3 * n
        /\ level = "MEDIUM" <=> (100 * h > 15 * n /\ 10 * h <= 3 * n)
        /\ level = "LOW"    <=> 100 * h <= 15 * n

\* exactly 31% of the records above 0.7: HIGH
C10_Witness ==
  /\ session_input # <<>>
  /\ summary["risk_assessment"].status = "returned"
  /\ 100 * HighVolatilityCount(session_input) = 31 * Len(session_input)
  /\ summary["risk_assessment"].value.level = "HIGH"


\* C11: a cycle query whose instant is before the epoch fails with an error;
\* calculate_dasha_bhukti never returns a cycle state for instant < epoch
C11_BeforeEpochFails ==
  (call.fn = "calculate_dasha_bhukti" /\ ret.status # "pending"
   /\ call.current_date < call.birth_date)
    => ret.status = "raised"


\* C12: when the ephemeris fails for a minute of [start, end] the generation
\* ends in that failure and returns nothing: a returned list has no minute
\* that failed, no minute is passed over, every record carries the longitude
\* the ephemeris gave, and the failure handed to the caller has no list
C12_FailurePropagates ==
  /\ pc = "returned" =>
       /\ result.status = "returned"
       /\ \A t \in start_time..end_time : sky[t] # EphemerisError
  /\ pc = "loop" =>
       /\ \A t \in start_time..(current_time - 1) : sky[t] # EphemerisError
       /\ Len(predictions) = current_time - start_time
  /\ pc \in {"loop", "returned", "raised"} =>
       \A i \in 1..Len(predictions) :
         predictions[i].moon_longitude = sky[predictions[i].timestamp]
  /\ pc = "raised" =>
       /\ result.status = "raised"
       /\ DOMAIN result = {"status", "error"}
       /\ result.error = "EphemerisError" => sky[current_time] = EphemerisError

\* the ephemeris fails after at least one minute went well
C12_Witness ==
  /\ pc = "raised"
  /\ result.status = "raised"
  /\ result.error = "EphemerisError"
  /\ Len(predictions) >= 1


\* C13: a generation with the same start and end as an earlier one on the
\* same calculator ends as the earlier one did (the same record sequence, or
\* the same failure), whatever generations, failures and summaries came between
C13_Restartable ==
  (/\ earlier.status = "kept"
   /\ pc \in {"returned", "raised"}
   /\ start_time = earlier.start_time
   /\ end_time = earlier.end_time)
    => /\ result.status = earlier.outcome.status
       /\ result.status = "returned" => result.value = earlier.outcome.value
       /\ result.status = "raised" => result.error = earlier.outcome.error

\* a second generation over the window of a kept one returned records
C13_Witness ==
  /\ earlier.status = "kept"
  /\ pc = "returned"
  /\ start_time = earlier.start_time
  /\ end_time = earlier.end_time
  /\ Len(result.value) >= 2


\* how often label occurs in the list events
Occurrences(events, label) == Cardinality({i \in 1..Len(events) : events[i] = label})

\* the list events holds label once when cond holds and not at all otherwise
LabelIff(events, label, cond) == Occurrences(events, label) = (IF cond THEN 1 ELSE 0)

\* C14: the list detect_key_events returns holds each of the five labels
\* exactly when its own condition holds (segment progress > 0.95, major
\* progress > 0.98, sub progress > 0.98, Rahu major with Mars sub, Jupiter
\* segment with Jupiter major), each threshold strict, and nothing else
C14_EventLabels ==
  (call.fn = "detect_key_events" /\ ret.status = "returned") =>
    LET events == ret.value
        n      == call.nakshatra
        d      == call.dasha_info
        c1     == call.nakshatra_progress.num * 100 > 95 * call.nakshatra_progress.den
        c2     == d.mahadasha_progress.num * 100 > 98 * d.mahadasha_progress.den
        c3     == d.bhukti_progress.num * 100 > 98 * d.bhukti_progress.den
        c4     == d.mahadasha_lord = "Rahu" /\ d.bhukti_lord = "Mars"
        c5     == n.lord = "Jupiter" /\ d.mahadasha_lord = "Jupiter"
    IN  /\ LabelIff(events, "Approaching " \o n.name \o " end", c1)
        /\ LabelIff(events, "Mahadasha change imminent", c2)
        /\ LabelIff(events, "Bhukti change imminent", c3)
        /\ LabelIff(events, "Rahu-Mars combination - High volatility expected", c4)
        /\ LabelIff(events, "Double Jupiter influence - Bullish bias", c5)
        /\ Len(events) = Cardinality({k \in 1..5 : <<c1, c2, c3, c4, c5>>[k]})

\* four conditions hold at once, with the segment progress just over 0.95
C14_Witness ==
  /\ call.fn = "detect_key_events"
  /\ ret.status = "returned"
  /\ Len(ret.value) = 4
  /\ call.nakshatra_progress = [num |-> 9501, den |-> 10000]


\* the j-th smallest member of the set of indexes M
NthOf(M, j) == CHOOSE m \in M : Cardinality({x \in M : x < m}) = j - 1

\* the time labels of the first k records of preds whose index is in M
FirstLabels(preds, M, k) ==
  [j \in 1..(IF Cardinality(M) < k THEN Cardinality(M) ELSE k) |-> preds[NthOf(M, j)].time_str]

\* key_periods has no entry of the type when M is empty, and otherwise one
\* entry whose periods are the first k time labels of M
CategoryIs(key_periods, type, preds, M, k) ==
  LET entries == {i \in 1..Len(key_periods) : key_periods[i].type = type}
  IN  IF M = {} THEN entries = {}
      ELSE /\ Cardinality(entries) = 1
           /\ \A i \in entries : key_periods[i].periods = FirstLabels(preds, M, k)

\* C15: identify_key_periods reports the time labels of the first 3 records
\* with volatility > 0.7, of the first 2 bullish records with score > 0.7
\* and of the first 2 bearish records with score > 0.7, each in sequence
\* order, and leaves out a category that no record matches
C15_KeyPeriods ==
  summary["key_periods"].status = "returned" =>
    LET preds       == session_input
        key_periods == summary["key_periods"].value
        idx         == 1..Len(preds)
    IN  /\ CategoryIs(key_periods, "High Volatility", preds,
                      {i \in idx : preds[i].predicted_volatility > 700}, 3)
        /\ CategoryIs(key_periods, "Strong Bullish Bias", preds,
                      {i \in idx : /\ preds[i].predicted_direction = "bullish"
                                   /\ preds[i].combined_influence_score > 700}, 2)
        /\ CategoryIs(key_periods, "Strong Bearish Bias", preds,
                      {i \in idx : /\ preds[i].predicted_direction = "bearish"
                                   /\ preds[i].combined_influence_score > 700}, 2)
        /\ \A i \in 1..Len(key_periods) :
             key_periods[i].type \in {"High Volatility", "Strong Bullish Bias",
                                      "Strong Bearish Bias"}

\* four records over the volatility threshold with different time labels, of
\* which three are reported, and the bullish category left out
C15_Witness ==
  /\ summary["key_periods"].status = "returned"
  /\ Len(session_input) = 4
  /\ \A i \in 1..4 : session_input[i].predicted_volatility > 700
  /\ session_input[1].time_str # session_input[4].time_str
  /\ Len(summary["key_periods"].value[1].periods) = 3
  /\ \A i \in 1..Len(summary["key_periods"].value) :
       summary["key_periods"].value[i].type # "Strong Bullish Bias"


\* how many of the 3 * Len(preds) ruler fields of preds name the planet
Tally(preds, planet) ==
  Cardinality({i \in 1..Len(preds) : preds[i].mahadasha_lord = planet})
  + Cardinality({i \in 1..Len(preds) : preds[i].bhukti_lord = planet})
  + Cardinality({i \in 1..Len(preds) : preds[i].nakshatra_lord = planet})

\* C16: for a non-empty list get_dominant_influences reports at most 3
\* different rulers (3, or all when fewer were tallied), in non-increasing
\* order of their tally over the major, sub and segment ruler of every
\* record, no unreported ruler has a higher tally than a reported one, and
\* each percentage is tally / (3 * records) * 100
C16_DominantRulers ==
  (summary["dominant_influences"].status = "returned" /\ session_input # <<>>) =>
    LET preds    == session_input
        top      == summary["dominant_influences"].value
        reported == {top[i].planet : i \in 1..Len(top)}
        tallied  == {p \in Planets : Tally(preds, p) > 0}
    IN  /\ Len(top) <= 3
        /\ Len(top) = (IF Cardinality(tallied) < 3 THEN Cardinality(tallied) ELSE 3)
        /\ Cardinality(reported) = Len(top)
        /\ reported \subseteq tallied
        /\ \A i \in 1..(Len(top) - 1) :
             Tally(preds, top[i].planet) >= Tally(preds, top[i + 1].planet)
        /\ \A p \in tallied \ reported : \A q \in reported : Tally(preds, p) <= Tally(preds, q)
        /\ \A i \in 1..Len(top) :
             top[i].influence_percentage.num * 3 * Len(preds)
               = Tally(preds, top[i].planet) * 100 * top[i].influence_percentage.den

\* four rulers tallied, three reported, and the first reported is not the
\* first one tallied
C16_Witness ==
  /\ summary["dominant_influences"].status = "returned"
  /\ session_input # <<>>
  /\ Cardinality({p \in Planets : Tally(session_input, p) > 0}) = 4
  /\ Len(summary["dominant_influences"].value) = 3
  /\ summary["dominant_influences"].value[1].planet # session_input[1].mahadasha_lord
  /\ Tally(session_input, summary["dominant_influences"].value[1].planet)
       > Tally(session_input, summary["dominant_influences"].value[3].planet)


\* C17: for the longitude 360 no range of the table matches and
\* get_current_nakshatra returns the first segment (nakshatras[0] of the
\* code, the first of the sequence here) and does not raise
C17_FullCircleFallback ==
  (call.fn = "get_current_nakshatra" /\ ret.status # "pending"
   /\ call.moon_longitude = FullCircle)
    => /\ SegmentsHolding(call.moon_longitude) = {}
       /\ ret.status = "returned"
       /\ ret.value = 1
       /\ nakshatras[ret.value].name = "Ashwini"

\* the call with 360 has returned
C17_Witness ==
  /\ call.fn = "get_current_nakshatra"
  /\ call.moon_longitude = FullCircle
  /\ ret.status = "returned"


\* C18: every one of the 27 segments of the table get_current_nakshatra
\* scans has the span 360 / 27 (27 times the span is the full circle)
C18_EqualSpans ==
  call.fn = "get_current_nakshatra" =>
    \A i \in 1..Len(nakshatras) :
      27 * (nakshatras[i].range[2] - nakshatras[i].range[1]) = FullCircle


\* one macro-cycle of 43830 days, in minutes
CycleMinutes == 43830 * MinutesPerDay

\* C19: for an instant at or after the epoch, calculate_dasha_bhukti at the
\* instant and at the instant plus 43830 days give the same major ruler,
\* sub ruler, major progress and sub progress
C19_CycleRepeats ==
  (DashaReturned /\ call.current_date >= call.birth_date) =>
    LET later == calculate_dasha_bhukti(call.birth_date, call.current_date + CycleMinutes)
    IN  /\ HasProgressKeys(ret.value)
        /\ HasProgressKeys(later)
        /\ later.mahadasha_lord = ret.value.mahadasha_lord
        /\ later.bhukti_lord = ret.value.bhukti_lord
        /\ later.mahadasha_progress = ret.value.mahadasha_progress
        /\ later.bhukti_progress = ret.value.bhukti_progress

\* the last day of the first cycle, in Mercury, and the same day one cycle on
C19_Witness ==
  /\ DashaReturned
  /\ ElapsedDaysOf(call) = 43829
  /\ ret.value.mahadasha_lord = "Mercury"
  /\ calculate_dasha_bhukti(call.birth_date, call.current_date + CycleMinutes).mahadasha_lord
       = "Mercury"


\* C20: for every whole-day difference between instant and epoch, negative
\* ones included, one of the nine spans holds the phase, so what
\* calculate_dasha_bhukti returns is never the fallback of its last line
\* and has the two progress keys the loop body reads
C20_WalkFindsSpan ==
  DashaReturned =>
    /\ 0 <= PhaseOf(call) /\ PhaseOf(call) < total_mahadasha_days
    /\ MajorIndexes(PhaseOf(call)) # {}
    /\ HasProgressKeys(ret.value)
    /\ "progress" \notin DOMAIN ret.value

\* the day before the epoch: the phase is the last day of the cycle
C20_Witness ==
  /\ DashaReturned
  /\ ElapsedDaysOf(call) = 0 - 1
  /\ PhaseOf(call) = 4 * 43829
  /\ HasProgressKeys(ret.value)
  /\ ret.value.mahadasha_lord = "Mercury"


\* C21: all records of one trading session (09:15 to 15:30 of the analysis
\* date, one per minute) carry the same major ruler, sub ruler, major
\* progress and sub progress
C21_SessionCycleState ==
  call.fn = "get_trading_session_predictions" =>
    /\ \A i \in 1..Len(predictions) :
         /\ predictions[i].mahadasha_lord = predictions[1].mahadasha_lord
         /\ predictions[i].bhukti_lord = predictions[1].bhukti_lord
         /\ predictions[i].mahadasha_progress = predictions[1].mahadasha_progress
         /\ predictions[i].bhukti_progress = predictions[1].bhukti_progress
    /\ pc = "returned" =>
         /\ Len(predictions) = 376
         /\ predictions[1].time_str = <<9, 15>>
         /\ predictions[376].time_str = <<15, 30>>
         /\ result = Returned(predictions)

\* the session of the first Venus day is complete, and the Moon changed
\* segment inside it
C21_Witness ==
  /\ call.fn = "get_trading_session_predictions"
  /\ call.analysis_date = 2557 * MinutesPerDay + 100
  /\ pc = "returned"
  /\ Len(predictions) = 376
  /\ predictions[1].mahadasha_lord = "Venus"
  /\ predictions[1].current_nakshatra # predictions[376].current_nakshatra


\* the list identify_key_periods returned has the High Volatility category
HasHighVolatilityCategory ==
  \E i \in 1..Len(summary["key_periods"].value) :
    summary["key_periods"].value[i].type = "High Volatility"

\* C22: for a non-empty list the High Volatility category is reported
\* exactly when some record has volatility > 0.7; so a risk level HIGH or
\* MEDIUM comes with the category, and without the category the level is LOW
C22_HighVolatilityConsistent ==
  (session_input # <<>> /\ summary["key_periods"].status = "returned") =>
    /\ HasHighVolatilityCategory
         <=> (\E i \in 1..Len(session_input) : session_input[i].predicted_volatility > 700)
    /\ summary["risk_assessment"].status # "raised"
    /\ summary["risk_assessment"].status = "returned" =>
         /\ summary["risk_assessment"].value.level \in {"HIGH", "MEDIUM"}
              => HasHighVolatilityCategory
         /\ ~ HasHighVolatilityCategory => summary["risk_assessment"].value.level = "LOW"

\* one record of four over the threshold: MEDIUM with the category, next to
\* a record of volatility 0.69 that does not count
C22_Witness ==
  /\ Len(session_input) = 4
  /\ summary["key_periods"].status = "returned"
  /\ summary["risk_assessment"].status = "returned"
  /\ summary["risk_assessment"].value.level = "MEDIUM"
  /\ HasHighVolatilityCategory
  /\ \E i \in 1..4 : session_input[i].predicted_volatility = 690


\* the bounds of one record, on the floats the code stores in it: the blend
\* and the score of its three rulers
FloatsInBounds(maha_inf, bhukti_inf, nakshatra_inf) ==
  \A v \in {total_volatility_float(maha_inf, bhukti_inf, nakshatra_inf)},
     s \in {calculate_combined_score_float(maha_inf, bhukti_inf, nakshatra_inf)} :
       /\ FloatLeq(Binary64(2, 10), v)
       /\ FloatLeq(v, Binary64(9, 10))
       /\ FloatLeq(v, s)
       /\ FloatLeq(s, Float1)
       /\ FloatEqual(s, v) <=> ~ DirectionsAligned(maha_inf, bhukti_inf, nakshatra_inf)

\* C23: in every record of a generation 0.2 <= predicted_volatility <= 0.9,
\* predicted_volatility <= combined_influence_score <= 1.0, and the two are
\* equal exactly when the three rulers do not share one direction (stated of
\* each record as the loop appends it)
C23_RecordBounds ==
  (pc = "loop" /\ predictions # <<>>) =>
    LET p == predictions[Len(predictions)]
    IN  FloatsInBounds(planet_influences[p.mahadasha_lord],
                       planet_influences[p.bhukti_lord],
                       planet_influences[p.nakshatra_lord])

====
